---------------------------- MODULE Spec2Model ----------------------------
(***************************************************************************)
(* Model of SignalTrigger.trigger (src/nodes/Signal/SignalTrigger.node.ts).*)
(*                                                                         *)
(* The trigger opens a WebSocket, forwards de-duplicated, filtered frames  *)
(* to the workflow (this.emit), re-opens the socket after an error or a    *)
(* close, and stops when closeFunction is called.  JavaScript runs every   *)
(* callback to completion, so each handler is one atomic action.  The      *)
(* transport (the ws library) and the timer queue are the environment:     *)
(* they decide when open / message / error / close callbacks and timer     *)
(* callbacks run.                                                          *)
(***************************************************************************)
EXTENDS Integers, Sequences, FiniteSets

(***************************************************************************)
(* Bounds of the model.                                                    *)
(***************************************************************************)
\* WebSocket objects the trigger may create in one run.
MaxSockets == 3
\* Size of one run: connections opened after the first, frames delivered, and
\* a repeated call of closeFunction.
MaxLoad == 3
\* Capacity of the dedup window in the model.  The source fixes it at 1000
\* (line 79); the handler reads it only through `size > maxMessages`, so the
\* model runs it with a capacity that a short run can fill and overflow.
WindowCap == 1
\* Timestamps range over 1..MaxTimestamp: one more value than the window holds.
MaxTimestamp == WindowCap + 1
\* Frames the transport delivers in one run: enough to fill the window,
\* overflow it, and deliver a frame again.
MaxFrames == WindowCap + 2

maxMessages == WindowCap

SocketIds == 1..MaxSockets
Timestamps == 1..MaxTimestamp

\* ws : WebSocket | null, reconnectTimeout : Timeout | null
Null == 0
\* A timer is identified by the connection and the handler that scheduled it.
TimerIds == SocketIds \X {"error", "close"}
NoTimer == <<0, "none">>

VARIABLES
    ignoreMessages,     \* node parameter (line 72)
    ignoreAttachments,  \* node parameter (line 73)
    ignoreReactions,    \* node parameter (line 74)
    processedMessages,  \* Set<number> of seen timestamps (line 78)
    ws,                 \* the socket the closure variable `ws` refers to
    reconnectTimeout,   \* the timer handle held in `reconnectTimeout`
    isClosed,           \* termination flag (line 83)
    created,            \* number of WebSocket objects created so far
    readyState,         \* per socket: "none" | "connecting" | "open" | "closed"
    closeRequested,     \* per socket: ws.close() has been called on it
    errored,            \* per socket: its 'error' event has fired
    origin,             \* per socket: the connection whose loss led to it (0: start)
    pendingTimers,      \* timers set by setTimeout, neither fired nor cleared
    emitted,            \* timestamps of the events handed to this.emit, in order
    skipped,            \* times connectWebSocket returned early (line 86-89)
    nframes,            \* frames delivered so far
    inserted,           \* every timestamp ever added to processedMessages
    last,               \* the frame handled last and what the handler did with it
    arrived,            \* timestamps of the frames with an envelope, in arrival order
    stops               \* calls of closeFunction so far: 0, 1, or 2 for "twice or more"

config == <<ignoreMessages, ignoreAttachments, ignoreReactions>>
lifecycle == <<ws, reconnectTimeout, isClosed, created, readyState,
               closeRequested, errored, origin, pendingTimers, skipped>>
messages == <<processedMessages, emitted, nframes, inserted, last, arrived>>
vars == <<config, lifecycle, messages, stops>>

Load == (created - 1) + nframes + (IF stops = 2 THEN 1 ELSE 0)

(***************************************************************************)
(* Frames.  An optional JSON field is the empty set when absent and a      *)
(* singleton holding its value when present.                               *)
(***************************************************************************)
Absent == {}
Present(v) == {v}
ValueOf(o) == CHOOSE v \in o : TRUE

Texts == {"", "hi"}
Lists == {<<>>, <<"x">>}

\* The frames that carry an envelope with timestamp t.
EnvelopeFrames(t) ==
    [kind : {"envelope"},
     timestamp : {t},
     message : {Absent} \cup {Present(x) : x \in Texts},
     attachments : {Absent} \cup {Present(l) : l \in Lists},
     reaction : {Absent} \cup {Present(l) : l \in Lists}]

\* data.toString() of one inbound frame, as JSON.parse sees it: not JSON,
\* JSON without an envelope, or JSON with one.
Frames ==
    [kind : {"invalid"}]
    \cup [kind : {"other"}]
    \cup UNION {EnvelopeFrames(t) : t \in Timestamps}

\* `x || d` for a string: absent and "" are falsy.
TextOr(o, d) == IF o = Absent \/ o = Present("") THEN d ELSE ValueOf(o)
\* `x || []` for an array: only an absent field is falsy.
ListOr(o, d) == IF o = Absent THEN d ELSE ValueOf(o)

\* lines 117-133: the event built from a frame that has an envelope
processedMessage(f) ==
    [messageText |-> TextOr(f.message, ""),
     attachments |-> ListOr(f.attachments, <<>>),
     reactions   |-> ListOr(f.reaction, <<>>),
     timestamp   |-> f.timestamp]

\* The empty-message test with the text condition inverted.
IsEmptyMessage_TextInverted(m) ==
    /\ m.messageText # ""
    /\ Len(m.attachments) = 0
    /\ Len(m.reactions) = 0

\* lines 138-140: the empty-message test
IsEmptyMessage(m) ==
    /\ m.messageText = ""
    /\ Len(m.attachments) = 0
    /\ Len(m.reactions) = 0

\* The ignore-flag test with the three conditions joined by "and".
IsIgnored_AllRequired(m) ==
    /\ ignoreMessages /\ m.messageText # ""
    /\ ignoreAttachments /\ Len(m.attachments) > 0
    /\ ignoreReactions /\ Len(m.reactions) > 0

\* lines 146-148: the ignore-flag test
IsIgnored(m) ==
    \/ ignoreMessages /\ m.messageText # ""
    \/ ignoreAttachments /\ Len(m.attachments) > 0
    \/ ignoreReactions /\ Len(m.reactions) > 0

\* The handler recording the timestamp only of a frame it goes on to emit,
\* as if the content filter ran before the dedup check.
IsRecorded_OnlyWhenEmitted(f) ==
    /\ f.kind = "envelope"
    /\ f.timestamp \notin processedMessages
    /\ ~IsEmptyMessage(processedMessage(f))
    /\ ~IsIgnored(processedMessage(f))

\* line 106 false: the handler goes on to record the timestamp (line 111)
IsRecorded(f) == f.kind = "envelope" /\ f.timestamp \notin processedMessages

\* Math.min(...set) of a non-empty set
Min(S) == CHOOSE x \in S : \A y \in S : x <= y

\* Math.max(...set) of a non-empty set
Max(S) == CHOOSE x \in S : \A y \in S : x >= y

\* The eviction with Math.max in place of Math.min.
Record_EvictMax(window, t) ==
    LET added == window \cup {t}
    IN  IF Cardinality(added) > maxMessages
        THEN added \ {Max(added)}
        ELSE added

\* The eviction with `>=` in place of `>`.
Record_EvictAtCapacity(window, t) ==
    LET added == window \cup {t}
    IN  IF Cardinality(added) >= maxMessages
        THEN added \ {Min(added)}
        ELSE added

\* lines 111-115: add the timestamp, then evict the smallest when over capacity
Record(window, t) ==
    LET added == window \cup {t}
    IN  IF Cardinality(added) > maxMessages
        THEN added \ {Min(added)}
        ELSE added

\* A handler that also treats a frame as a duplicate when the window is full.
Outcome_DuplicateWhenFull(f) ==
    IF f.kind = "invalid" THEN "parse-error"
    ELSE IF f.kind = "other" THEN "no-envelope"
    ELSE IF \/ f.timestamp \in processedMessages
            \/ Cardinality(processedMessages) >= maxMessages THEN "duplicate"
    ELSE IF IsEmptyMessage(processedMessage(f)) THEN "empty"
    ELSE IF IsIgnored(processedMessage(f)) THEN "ignored"
    ELSE "emit"

\* What the message handler does with frame f (lines 100-161).
Outcome(f) ==
    IF f.kind = "invalid" THEN "parse-error"
    ELSE IF f.kind = "other" THEN "no-envelope"
    ELSE IF f.timestamp \in processedMessages THEN "duplicate"
    ELSE IF IsEmptyMessage(processedMessage(f)) THEN "empty"
    ELSE IF IsIgnored(processedMessage(f)) THEN "ignored"
    ELSE "emit"

NoFrame == [outcome |-> "none", before |-> {}, timestamp |-> 0]

(***************************************************************************)
(* Initial state: trigger() has read its parameters and has called         *)
(* connectWebSocket() once (line 179).                                     *)
(***************************************************************************)
Init ==
    /\ ignoreMessages \in BOOLEAN
    /\ ignoreAttachments \in BOOLEAN
    /\ ignoreReactions \in BOOLEAN
    /\ processedMessages = {}
    /\ ws = 1
    /\ reconnectTimeout = NoTimer
    /\ isClosed = FALSE
    /\ created = 1
    /\ readyState = [s \in SocketIds |-> IF s = 1 THEN "connecting" ELSE "none"]
    /\ closeRequested = [s \in SocketIds |-> FALSE]
    /\ errored = [s \in SocketIds |-> FALSE]
    /\ origin = [s \in SocketIds |-> 0]
    /\ pendingTimers = {}
    /\ emitted = <<>>
    /\ skipped = 0
    /\ nframes = 0
    /\ inserted = {}
    /\ last = NoFrame
    /\ arrived = <<>>
    /\ stops = 0

\* connectWebSocket without the isClosed test of lines 86-89.
connectWebSocket_NoClosedTest(from) ==
    /\ created' = created + 1
    /\ ws' = created + 1
    /\ readyState' = [readyState EXCEPT ![created + 1] = "connecting"]
    /\ origin' = [origin EXCEPT ![created + 1] = from]
    /\ UNCHANGED skipped

(***************************************************************************)
(* connectWebSocket (lines 85-177), called by the timer that connection    *)
(* `from` scheduled.                                                       *)
(***************************************************************************)
connectWebSocket(from) ==
    IF isClosed
    THEN /\ skipped' = skipped + 1
         /\ UNCHANGED <<ws, created, readyState, origin>>
    ELSE /\ created' = created + 1
         /\ ws' = created + 1
         /\ readyState' = [readyState EXCEPT ![created + 1] = "connecting"]
         /\ origin' = [origin EXCEPT ![created + 1] = from]
         /\ UNCHANGED skipped

\* A reconnect that starts the new connection with an empty window.
TimerFire_ResetsWindow(t) ==
    /\ t \in pendingTimers
    /\ t[2] = "error" => readyState[t[1]] = "closed"
    /\ isClosed \/ (created < MaxSockets /\ Load < MaxLoad)
    /\ pendingTimers' = pendingTimers \ {t}
    /\ connectWebSocket(t[1])
    /\ processedMessages' = {}
    /\ UNCHANGED <<reconnectTimeout, isClosed, closeRequested, errored>>
    /\ UNCHANGED <<config, emitted, nframes, inserted, last, arrived, stops>>

\* The reconnect timer t fires and runs connectWebSocket.  The transport
\* follows a connection's 'error' event with its 'close' event at once, and
\* the delay is at least a second, so a timer set by the error handler fires
\* after the connection has closed.
TimerFire(t) ==
    /\ t \in pendingTimers
    /\ t[2] = "error" => readyState[t[1]] = "closed"
    /\ isClosed \/ (created < MaxSockets /\ Load < MaxLoad)
    /\ pendingTimers' = pendingTimers \ {t}
    /\ connectWebSocket(t[1])
    /\ UNCHANGED <<reconnectTimeout, isClosed, closeRequested, errored>>
    /\ UNCHANGED <<config, messages, stops>>

\* ws.on('open') (lines 95-97): logs only.  A connection on which close()
\* was called while connecting, or which has failed, does not open.
OnOpen(s) ==
    /\ readyState[s] = "connecting"
    /\ ~closeRequested[s]
    /\ ~errored[s]
    /\ readyState' = [readyState EXCEPT ![s] = "open"]
    /\ UNCHANGED <<ws, reconnectTimeout, isClosed, created, closeRequested,
                   errored, origin, pendingTimers, skipped>>
    /\ UNCHANGED <<config, messages, stops>>

\* The reconnect scheduling without the isClosed test of lines 166 and 173.
ScheduleReconnect_NoClosedTest(t) ==
    /\ pendingTimers' = pendingTimers \cup {t}
    /\ reconnectTimeout' = t

\* A reconnect scheduling with a retry limit: none after the second connection.
ScheduleReconnect_GivesUp(t) ==
    IF ~isClosed /\ created < 2
    THEN /\ pendingTimers' = pendingTimers \cup {t}
         /\ reconnectTimeout' = t
    ELSE UNCHANGED <<pendingTimers, reconnectTimeout>>

\* lines 166-168 and 173-175: schedule a reconnect unless the trigger is closed
ScheduleReconnect(t) ==
    IF ~isClosed
    THEN /\ pendingTimers' = pendingTimers \cup {t}
         /\ reconnectTimeout' = t
    ELSE UNCHANGED <<pendingTimers, reconnectTimeout>>

\* ws.on('error') (lines 164-169).  A connection reports at most one error,
\* before it closes.
OnError(s) ==
    /\ readyState[s] \in {"connecting", "open"}
    /\ ~errored[s]
    /\ errored' = [errored EXCEPT ![s] = TRUE]
    /\ ScheduleReconnect(<<s, "error">>)
    /\ UNCHANGED <<ws, isClosed, created, readyState, closeRequested, origin, skipped>>
    /\ UNCHANGED <<config, messages, stops>>

\* ws.on('close') (lines 171-176)
OnClose(s) ==
    /\ readyState[s] \in {"connecting", "open"}
    /\ readyState' = [readyState EXCEPT ![s] = "closed"]
    /\ ScheduleReconnect(<<s, "close">>)
    /\ UNCHANGED <<ws, isClosed, created, closeRequested, errored, origin, skipped>>
    /\ UNCHANGED <<config, messages, stops>>

\* A handler that hands its event to the consumer ahead of the earlier ones.
OnMessage_EmitsAtFront(s, f) ==
    /\ readyState[s] = "open"
    /\ ~errored[s]
    /\ nframes < MaxFrames /\ Load < MaxLoad
    /\ nframes' = nframes + 1
    /\ emitted' =
           IF Outcome(f) = "emit"
           THEN <<f.timestamp>> \o emitted
           ELSE emitted
    /\ last' = [outcome |-> Outcome(f), before |-> processedMessages,
                timestamp |-> IF f.kind = "envelope" THEN f.timestamp ELSE 0]
    /\ processedMessages' =
           IF IsRecorded(f)
           THEN Record(processedMessages, f.timestamp)
           ELSE processedMessages
    /\ inserted' = IF IsRecorded(f) THEN inserted \cup {f.timestamp} ELSE inserted
    /\ arrived' = IF f.kind = "envelope" THEN Append(arrived, f.timestamp) ELSE arrived
    /\ UNCHANGED <<config, lifecycle, stops>>

\* The message handler without the try/catch of lines 100 and 159-161: a
\* frame that is not JSON ends the connection and a reconnect is scheduled.
OnMessage_ParseErrorCloses(s, f) ==
    /\ readyState[s] = "open"
    /\ ~errored[s]
    /\ nframes < MaxFrames /\ Load < MaxLoad
    /\ nframes' = nframes + 1
    /\ emitted' =
           IF Outcome(f) = "emit"
           THEN Append(emitted, f.timestamp)
           ELSE emitted
    /\ last' = [outcome |-> Outcome(f), before |-> processedMessages,
                timestamp |-> IF f.kind = "envelope" THEN f.timestamp ELSE 0]
    /\ processedMessages' =
           IF IsRecorded(f)
           THEN Record(processedMessages, f.timestamp)
           ELSE processedMessages
    /\ inserted' = IF IsRecorded(f) THEN inserted \cup {f.timestamp} ELSE inserted
    /\ arrived' = IF f.kind = "envelope" THEN Append(arrived, f.timestamp) ELSE arrived
    /\ IF f.kind = "invalid"
       THEN /\ readyState' = [readyState EXCEPT ![s] = "closed"]
            /\ ScheduleReconnect(<<s, "close">>)
            /\ UNCHANGED <<ws, isClosed, created, closeRequested, errored,
                           origin, skipped>>
       ELSE UNCHANGED lifecycle
    /\ UNCHANGED <<config, stops>>

\* ws.on('message') (lines 99-162) for frame f arriving on socket s.  The
\* handler has no await, so it runs to its end in one step.  The transport
\* delivers frames on an open connection until the connection closes, also
\* after close() has been called on it.
OnMessage(s, f) ==
    /\ readyState[s] = "open"
    /\ ~errored[s]
    /\ nframes < MaxFrames /\ Load < MaxLoad
    /\ nframes' = nframes + 1
    /\ emitted' =
           IF Outcome(f) = "emit"
           THEN Append(emitted, f.timestamp)
           ELSE emitted
    /\ last' = [outcome |-> Outcome(f), before |-> processedMessages,
                timestamp |-> IF f.kind = "envelope" THEN f.timestamp ELSE 0]
    /\ processedMessages' =
           IF IsRecorded(f)
           THEN Record(processedMessages, f.timestamp)
           ELSE processedMessages
    /\ inserted' = IF IsRecorded(f) THEN inserted \cup {f.timestamp} ELSE inserted
    /\ arrived' = IF f.kind = "envelope" THEN Append(arrived, f.timestamp) ELSE arrived
    /\ UNCHANGED <<config, lifecycle, stops>>

(***************************************************************************)
(* A stop that flips the flag instead of setting it: a second call would   *)
(* bring the trigger back to life.                                         *)
(***************************************************************************)
closeFunction_TogglesFlag ==
    /\ stops = 1 => Load < MaxLoad
    /\ isClosed' = ~isClosed
    /\ IF reconnectTimeout # NoTimer
       THEN /\ pendingTimers' = pendingTimers \ {reconnectTimeout}
            /\ reconnectTimeout' = NoTimer
       ELSE UNCHANGED <<pendingTimers, reconnectTimeout>>
    /\ IF ws # Null
       THEN /\ closeRequested' =
                   [closeRequested EXCEPT ![ws] = @ \/ readyState[ws] # "closed"]
            /\ ws' = Null
       ELSE UNCHANGED <<closeRequested, ws>>
    /\ UNCHANGED <<created, readyState, errored, origin, skipped>>
    /\ stops' = IF stops < 2 THEN stops + 1 ELSE stops
    /\ UNCHANGED <<config, messages>>

\* closeFunction (lines 182-193).  clearTimeout on a timer that has fired and
\* close() on a connection that has closed do nothing.  The first repeated
\* call counts towards the size of the run.
closeFunction ==
    /\ stops = 1 => Load < MaxLoad
    /\ isClosed' = TRUE
    /\ IF reconnectTimeout # NoTimer
       THEN /\ pendingTimers' = pendingTimers \ {reconnectTimeout}
            /\ reconnectTimeout' = NoTimer
       ELSE UNCHANGED <<pendingTimers, reconnectTimeout>>
    /\ IF ws # Null
       THEN /\ closeRequested' =
                   [closeRequested EXCEPT ![ws] = @ \/ readyState[ws] # "closed"]
            /\ ws' = Null
       ELSE UNCHANGED <<closeRequested, ws>>
    /\ UNCHANGED <<created, readyState, errored, origin, skipped>>
    /\ stops' = IF stops < 2 THEN stops + 1 ELSE stops
    /\ UNCHANGED <<config, messages>>

\* The connections on which a 'message' event can occur in this state.
Receiving ==
    {s \in SocketIds : readyState[s] = "open" /\ ~errored[s] /\ Load < MaxLoad}

Next ==
    \/ \E s \in SocketIds : OnOpen(s)
    \/ \E s \in Receiving : \E f \in Frames : OnMessage(s, f)
    \/ \E s \in SocketIds : OnError(s)
    \/ \E s \in SocketIds : OnClose(s)
    \/ \E t \in TimerIds : TimerFire(t)
    \/ closeFunction

Spec == Init /\ [][Next]_vars

\* A timer set by setTimeout (lines 167, 174) and not cleared fires once its
\* delay has passed.
TimerFairness == \A t \in TimerIds : WF_vars(TimerFire(t))
\* The transport delivers the 'close' event of a connection that has reported
\* an error.
TransportFairness == \A s \in SocketIds : WF_vars(errored[s] /\ OnClose(s))

FairSpec == Spec /\ TimerFairness /\ TransportFairness

(***************************************************************************)
(* Properties.                                                             *)
(***************************************************************************)
LiveSockets == {s \in SocketIds : readyState[s] \in {"connecting", "open"}}

\* C1 (terminal stop, emissions): once closeFunction has returned, no step
\* hands an event to this.emit.
NoEmissionAfterStop == [][isClosed => emitted' = emitted]_vars

\* C2 (one live connection): at most one WebSocket that has been created has
\* not yet closed.
AtMostOneLiveConnection == Cardinality(LiveSockets) <= 1

\* C3 (one reconnect per loss): at most one reconnect timer is pending, and
\* for each lost connection the pending timers it scheduled and the
\* connections opened on its behalf number at most one.
OneReconnectPerLoss ==
    /\ Cardinality(pendingTimers) <= 1
    /\ \A c \in SocketIds :
           Cardinality({t \in pendingTimers : t[1] = c})
             + Cardinality({s \in 1..created : origin[s] = c}) <= 1

\* C4 (dedup idempotence): a frame that carries the timestamp of the frame
\* emitted just before it is not emitted.
DedupIdempotence ==
    [][(nframes' = nframes + 1 /\ last.outcome = "emit"
          /\ last'.timestamp = last.timestamp)
       => last'.outcome # "emit"]_vars

\* C5 (window bound): the window never holds more than maxMessages
\* timestamps, and once more than maxMessages distinct timestamps have been
\* inserted it holds exactly maxMessages.
WindowBound ==
    /\ Cardinality(processedMessages) <= maxMessages
    /\ Cardinality(inserted) > maxMessages
           => Cardinality(processedMessages) = maxMessages

\* One more distinct timestamp than the capacity has been inserted.
WindowOverflowed == Cardinality(inserted) = maxMessages + 1

\* The last frame added its timestamp to the window.
LastWasRecorded == last.outcome \in {"empty", "ignored", "emit"}

\* C6 (min-value eviction): when the insertion takes the window over
\* capacity, exactly one entry leaves, no entry held after the insertion is
\* smaller than it, and every other entry stays; when the capacity is not
\* exceeded nothing leaves.
MinValueEviction ==
    LastWasRecorded =>
        LET added == last.before \cup {last.timestamp}
            gone == added \ processedMessages
        IN  /\ processedMessages \subseteq added
            /\ IF Cardinality(added) > maxMessages
               THEN /\ Cardinality(gone) = 1
                    /\ \A e \in gone : \A x \in added : e <= x
               ELSE gone = {}

\* The last insertion evicted an entry that was held before it.
EvictedAnOlderEntry ==
    /\ LastWasRecorded
    /\ Cardinality(last.before \cup {last.timestamp}) > maxMessages
    /\ last.timestamp \in processedMessages

\* The frame has no text, no attachments and no reactions.
FrameHasNoContent(f) ==
    /\ f.message \subseteq {""}
    /\ f.attachments \subseteq {<<>>}
    /\ f.reaction \subseteq {<<>>}

\* C7 (empty-content drop): a frame without text, attachments and reactions is
\* never handed to this.emit, whatever the three ignore flags are: no step
\* that emits is the handling of such a frame.
EmptyContentDrop ==
    [][emitted' # emitted =>
          \A f \in EnvelopeFrames(last'.timestamp) :
              FrameHasNoContent(f) => ~(\E s \in SocketIds : OnMessage(s, f))]_vars

\* An empty frame was dropped while all three ignore flags were off.
EmptyFrameDropped ==
    /\ last.outcome = "empty"
    /\ ~ignoreMessages /\ ~ignoreAttachments /\ ~ignoreReactions

\* One of the enabled ignore flags matches content of the frame.
FrameMatchesIgnoreFlag(f) ==
    \/ ignoreMessages /\ f.message \notin {Absent, Present("")}
    \/ ignoreAttachments /\ f.attachments \notin {Absent, Present(<<>>)}
    \/ ignoreReactions /\ f.reaction \notin {Absent, Present(<<>>)}

\* C8 (filter independence): a frame that matches at least one enabled ignore
\* flag is dropped (no step that emits is the handling of such a frame); a
\* frame with content that matches none of them is handed to this.emit unless
\* its timestamp is already in the window (no step that handles a frame and
\* emits nothing is the handling of such a frame).  A step that handles a
\* frame sets last.timestamp to the frame's timestamp, so only the frames
\* with that timestamp need to be looked at.
FilterIndependence ==
    [][/\ emitted' # emitted =>
             \A f \in EnvelopeFrames(last'.timestamp) :
                 FrameMatchesIgnoreFlag(f)
                     => ~(\E s \in SocketIds : OnMessage(s, f))
       /\ (nframes' # nframes /\ emitted' = emitted) =>
             \A f \in EnvelopeFrames(last'.timestamp) :
                 (/\ ~FrameMatchesIgnoreFlag(f)
                  /\ ~FrameHasNoContent(f)
                  /\ f.timestamp \notin processedMessages)
                     => ~(\E s \in SocketIds : OnMessage(s, f))]_vars

\* A frame was dropped by ignoreAttachments alone.
DroppedByOneFlag ==
    /\ last.outcome = "ignored"
    /\ ignoreAttachments /\ ~ignoreMessages /\ ~ignoreReactions

\* C9 (terminated is absorbing): once isClosed is set, no step creates a
\* WebSocket.
TerminatedIsAbsorbing == [][isClosed => created' = created]_vars

\* A reconnect timer fired after closeFunction and connectWebSocket
\* returned early.
TimerFiredAfterStop == isClosed /\ skipped > 0

\* C10 (stop cancels timers): once closeFunction has returned, no reconnect
\* timer is pending.
StopCancelsEveryTimer == isClosed => pendingTimers = {}

\* C11 (stop closes every connection): once closeFunction has returned, every
\* WebSocket the trigger has created has closed or has had close() called on
\* it.
StopClosesEveryConnection ==
    isClosed => \A s \in 1..created : readyState[s] = "closed" \/ closeRequested[s]

\* data.toString() that JSON.parse rejects.
InvalidFrame == [kind |-> "invalid"]

\* C13 (parse failure): handling a frame that is not JSON emits nothing,
\* leaves the window, the connections, the timers and the flag as they are,
\* and leaves the connection open for the frames that follow.
ParseFailureHasNoEffect ==
    [][\A s \in SocketIds :
          OnMessage(s, InvalidFrame) =>
              /\ emitted' = emitted
              /\ processedMessages' = processedMessages
              /\ pendingTimers' = pendingTimers
              /\ reconnectTimeout' = reconnectTimeout
              /\ created' = created
              /\ isClosed' = isClosed
              /\ readyState' = readyState
              /\ readyState'[s] = "open" /\ ~errored'[s]]_vars

\* A frame that is not JSON was handled on a connection that is still open,
\* after an earlier frame had been emitted.
ParseFailureHandled ==
    /\ last.outcome = "parse-error"
    /\ emitted # <<>>
    /\ \E s \in SocketIds : readyState[s] = "open" /\ ~errored[s]

\* C20 (record then seen): after the handler has processed a frame with an
\* envelope, the frame's timestamp is in the window.
RecordedThenSeen ==
    last.outcome \in {"duplicate", "empty", "ignored", "emit"}
        => last.timestamp \in processedMessages

\* C19 (stop ordering): closeFunction leaves isClosed set, and every callback
\* that runs once isClosed is set (error, close, timer) schedules no reconnect
\* timer and creates no WebSocket.
FlagGuardsCallbacks ==
    [][/\ closeFunction => isClosed'
       /\ isClosed => /\ pendingTimers' \subseteq pendingTimers
                      /\ created' = created
                      /\ isClosed']_vars

\* The 'close' event of a connection that closeFunction closed has run after
\* closeFunction.
CloseEventAfterStop ==
    /\ isClosed
    /\ \E s \in SocketIds : closeRequested[s] /\ readyState[s] = "closed"

\* The last frame was dropped by the content filter.
LastWasFiltered == last.outcome \in {"empty", "ignored"}

StopIsIdempotent ==
    [][closeFunction =>
          /\ isClosed' /\ ws' = Null /\ reconnectTimeout' = NoTimer
          /\ created' = created
          /\ pendingTimers' \subseteq pendingTimers
          /\ emitted' = emitted
          /\ isClosed => /\ lifecycle' = lifecycle
                         /\ messages' = messages
                         /\ config' = config]_vars

\* Stop has been called again after the trigger had stopped, in a run that
\* had forwarded an event.
StoppedTwice == stops = 2 /\ isClosed /\ emitted # <<>>

RECURSIVE IsSubsequence(_, _)
\* a can be obtained from b by deleting entries.
IsSubsequence(a, b) ==
    IF a = <<>> THEN TRUE
    ELSE IF b = <<>> THEN FALSE
    ELSE IF Head(a) = Head(b) THEN IsSubsequence(Tail(a), Tail(b))
    ELSE IsSubsequence(a, Tail(b))

\* C16: events are forwarded in arrival order.  The forwarded timestamps are
\* a subsequence of the arrived ones, and an event is forwarded only by the
\* step that handles its frame, behind every event forwarded before it: the
\* emission is over when the next frame's handler starts.
ArrivalOrder ==
    /\ []IsSubsequence(emitted, arrived)
    /\ [][emitted' # emitted =>
              /\ nframes' = nframes + 1
              /\ arrived' = Append(arrived, last'.timestamp)
              /\ emitted' = Append(emitted, last'.timestamp)]_vars

\* Two events were forwarded and a frame that arrived was not.
ForwardedInOrder ==
    /\ Len(emitted) = 2 /\ emitted[1] # emitted[2]
    /\ Len(arrived) = 3

\* C15: one emission per qualifying frame.  The handling of a frame forwards
\* at most one event, and that event carries the frame's timestamp; and a
\* frame with content that matches no enabled ignore flag, and whose
\* timestamp no earlier frame carried, is forwarded (no step that handles a
\* frame and emits nothing is the handling of such a frame).  This holds
\* before stop and after it.
OneEmissionPerQualifyingFrame ==
    [][/\ nframes' # nframes =>
             \/ emitted' = emitted
             \/ emitted' = Append(emitted, last'.timestamp)
       /\ (nframes' # nframes /\ emitted' = emitted) =>
             \A f \in EnvelopeFrames(last'.timestamp) :
                 (/\ ~FrameHasNoContent(f)
                  /\ ~FrameMatchesIgnoreFlag(f)
                  /\ \A i \in DOMAIN arrived : arrived[i] # f.timestamp)
                     => ~(\E s \in SocketIds : OnMessage(s, f))]_vars

\* Before stop, a frame with a timestamp not seen before was forwarded, once,
\* after a frame with another timestamp had arrived.
QualifyingFrameForwarded ==
    /\ ~isClosed
    /\ last.outcome = "emit"
    /\ Len(arrived) >= 2
    /\ Cardinality({i \in DOMAIN arrived : arrived[i] = last.timestamp}) = 1
    /\ Cardinality({i \in DOMAIN emitted : emitted[i] = last.timestamp}) = 1

\* C18: the window persists across reconnects.  Only the handling of a frame
\* changes processedMessages: the open, error and close events, the
\* reconnect timer and stop leave it as it is.  So a frame whose timestamp is
\* still in the window is not forwarded, whichever connection delivers it.
WindowPersists ==
    [][/\ nframes' = nframes => processedMessages' = processedMessages
       /\ (nframes' # nframes /\ last'.timestamp \in processedMessages)
             => emitted' = emitted]_vars

\* The first connection was lost and the reconnect timer has made another,
\* which has not opened yet, so every frame so far came on the first one; the
\* window still holds a timestamp that was forwarded.
WindowSurvivedReconnect ==
    /\ ~isClosed
    /\ created = 2
    /\ readyState[1] = "closed" /\ readyState[2] = "connecting"
    /\ \E i \in DOMAIN emitted : emitted[i] \in processedMessages

\* The run has reached the size the model explores.
BoundReached == created = MaxSockets \/ Load >= MaxLoad

\* Connection s has failed or been lost: it has reported an error or closed.
Lost(s) == errored[s] \/ readyState[s] = "closed"

\* C12 (indefinite retry): with the reconnect timers firing, whenever a
\* connection has failed or been lost and the trigger is not stopped, then
\* stop is called or a connection is made on account of that loss, however
\* many connections were lost before it (up to the size of the run).
RetriesIndefinitely ==
    \A s \in SocketIds :
        (Lost(s) /\ ~isClosed)
            ~> (isClosed \/ BoundReached \/ \E s2 \in SocketIds : origin[s2] = s)

\* The connection made after the first loss reported an error too, and a
\* third connection was made on account of it, before any frame arrived.
RetriedAfterFailedRetry ==
    /\ ~isClosed
    /\ origin[2] = 1 /\ origin[3] = 2
    /\ errored[2] /\ nframes = 0

=============================================================================
